---- MODULE Spec2Model ----
(***************************************************************************)
(* ILI9488 8080-parallel LCD driver (ili9488.c / ili9488.h).               *)
(*                                                                         *)
(* The driver is modelled at three levels, each translated from the code:  *)
(*   - GPIO events: every BSRR write, __NOP() and HAL_Delay() of the       *)
(*     source is one event; ILI9488_Write18 / WriteCommand / WriteData     *)
(*     are sequences of such events;                                       *)
(*   - blocks: one straight-line statement sequence (n = 1) or one loop    *)
(*     body with its 32-bit iteration count;                               *)
(*   - the bus log: what the controller latches, obtained by replaying the *)
(*     events on the pins and sampling DCX and DB0..DB17 at every rising   *)
(*     edge of WR while CS is low.                                         *)
(* uint32_t loop counts are kept as two 16-bit limbs <<hi, lo>>, since the *)
(* products of two uint16_t values exceed 32-bit signed integers.          *)
(***************************************************************************)
EXTENDS Integers, Sequences, FiniteSets, TLC

\* ---------------------------------------------------------------- bounds
\* Rotation arguments tried: 0..MaxRotArg and 255 (uint8_t maximum).
MaxRotArg == 4

\* ------------------------------------------------------- program constants
ILI9488_PORTRAIT_WIDTH == 320
ILI9488_PORTRAIT_HEIGHT == 480
ILI9488_LANDSCAPE_WIDTH == 480
ILI9488_LANDSCAPE_HEIGHT == 320

ILI9488_BLUE == 63
ILI9488_RED == 4128768
ILI9488_WHITE == 4194303

ILI9488_ROTATION_PORTRAIT == 0
ILI9488_ROTATION_LANDSCAPE == 1
ILI9488_ROTATION_PORTRAIT_INV == 2
ILI9488_ROTATION_LANDSCAPE_INV == 3

CMD_SLEEP_IN == 16
CMD_SLEEP_OUT == 17
CMD_DISPLAY_OFF == 40
CMD_DISPLAY_ON == 41
CMD_MEMORY_WRITE == 44
CMD_COLUMN_ADDR == 42
CMD_PAGE_ADDR == 43
CMD_MEMORY_ACCESS == 54
CMD_PIXEL_FORMAT == 58

\* static const uint8_t ili9488_rotations[4] = {0x48, 0x28, 0x88, 0xE8},
\* indexed here from 1.
ili9488_rotations == <<72, 40, 136, 232>>

\* ------------------------------------------------------------ integer types
U8 == 256
U16 == 65536
\* 0x3FFFF + 1: the mask applied to every colour (color & 0x3FFFF).
Mask18 == 262144

\* A uint32_t as two 16-bit limbs.
U32(n) == <<n \div U16, n % U16>>
One32 == U32(1)
Zero32 == U32(0)

\* A 16-bit product: what w * h would be if it were truncated to uint16_t
\* (the limb arithmetic keeps every intermediate below 2^31).
Mul16Truncated(a, b) ==
    LET p1 == a * (b \div U8)
        p0 == a * (b % U8)
        lo == (p1 % U8) * U8 + p0
    IN <<0, lo % U16>>

\* (uint32_t)a * b for uint16_t a, b: both operands are zero-extended to
\* 32 bits and multiplied modulo 2^32.
Mul32(a, b) ==
    LET p1 == a * (b \div U8)
        p0 == a * (b % U8)
        lo == (p1 % U8) * U8 + p0
        hi == (p1 \div U8) + (lo \div U16)
    IN <<hi % U16, lo % U16>>

\* data & (1 << i), as 0 or 1.
Bit(data, i) == (data \div (2 ^ i)) % 2

\* ------------------------------------------------------------- GPIO events
\* One event per statement: a BSRR write to a pin, a __NOP(), a HAL_Delay().
Ev(p, i, v) == [p |-> p, i |-> i, v |-> v]
\* Port->BSRR = (uint32_t)Pin << 16 drives the pin low.
BSRR_Reset(p, i) == Ev(p, i, 0)
\* Port->BSRR = Pin drives the pin high.
BSRR_Set(p, i) == Ev(p, i, 1)
NOP == Ev("NOP", 0, 0)
HAL_Delay(ms) == Ev("DELAY", 0, ms)

\* Lines 40-57: DB0..DB17 are driven low.
ClearDataPins == [k \in 1..18 |-> BSRR_Reset("DB", k - 1)]
\* Lines 60-77: the pin of every 1 bit of `data` is driven high.
AllDataPins == [k \in 1..18 |-> BSRR_Set("DB", k - 1)]
SetDataPins(data) == SelectSeq(AllDataPins, LAMBDA e : Bit(data, e.i) = 1)
\* Lines 80-82: WR low, two NOPs, WR high.
Strobe == <<BSRR_Reset("WR", 0), NOP, NOP, BSRR_Set("WR", 0)>>

\* Write18 that pulses WR before it drives the data pins.
Write18StrobeFirst(data) == Strobe \o ClearDataPins \o SetDataPins(data)

\* Write18 that does not drive DB0..DB17 low first.
Write18NoClear(data) == SetDataPins(data) \o Strobe

\* ILI9488_Write18: clear DB0..DB17, set the pins of the 1 bits, WR low,
\* two NOPs, WR high.
ILI9488_Write18(data) == ClearDataPins \o SetDataPins(data) \o Strobe

\* WriteData that leaves chip-select asserted.
WriteDataKeepsCS(data) ==
    <<BSRR_Reset("CS", 0), BSRR_Set("DCX", 0)>> \o ILI9488_Write18(data)

\* WriteCommand that leaves DCX as the transaction before left it.
WriteCommandNoSelect(cmd) ==
    <<BSRR_Reset("CS", 0)>> \o ILI9488_Write18(cmd % U8) \o <<BSRR_Set("CS", 0)>>

\* ILI9488_WriteCommand(uint8_t cmd): CS low, DCX low, Write18, CS high.
ILI9488_WriteCommand(cmd) ==
    <<BSRR_Reset("CS", 0), BSRR_Reset("DCX", 0)>>
    \o ILI9488_Write18(cmd % U8)
    \o <<BSRR_Set("CS", 0)>>

\* ILI9488_WriteData(uint32_t data): CS low, DCX high, Write18, CS high.
ILI9488_WriteData(data) ==
    <<BSRR_Reset("CS", 0), BSRR_Set("DCX", 0)>>
    \o ILI9488_Write18(data)
    \o <<BSRR_Set("CS", 0)>>

\* ------------------------------------------------------------------ blocks
\* A block is an event sequence executed n times (n a uint32_t in limbs).
Once(ev) == [ev |-> ev, n |-> One32]
Cmd(cmd) == Once(ILI9488_WriteCommand(cmd))
Data(data) == Once(ILI9488_WriteData(data))
\* for(uint32_t i = 0; i < n; i++){ ILI9488_WriteData(data); }
Loop(n, data) ==
    IF n = Zero32 THEN <<>> ELSE <<[ev |-> ILI9488_WriteData(data), n |-> n]>>

IsPortrait(rot) ==
    rot = ILI9488_ROTATION_PORTRAIT \/ rot = ILI9488_ROTATION_PORTRAIT_INV
IsLandscape(rot) ==
    rot = ILI9488_ROTATION_LANDSCAPE \/ rot = ILI9488_ROTATION_LANDSCAPE_INV

\* The eleven transactions of one address window: column range (c0, c1),
\* page range (p0, p1), memory write.
WindowBlocks(c0, c1, p0, p1) ==
    << Cmd(CMD_COLUMN_ADDR),
       Data(c0 \div U8), Data(c0 % U8), Data(c1 \div U8), Data(c1 % U8),
       Cmd(CMD_PAGE_ADDR),
       Data(p0 \div U8), Data(p0 % U8), Data(p1 \div U8), Data(p1 % U8),
       Cmd(CMD_MEMORY_WRITE) >>

\* SetAddressWindow that sends the x range as the column range in the
\* landscape orientations too.
SetAddressWindowNoSwap(rot, x0, y0, x1, y1) ==
    IF IsPortrait(rot) \/ IsLandscape(rot) THEN WindowBlocks(x0, x1, y0, y1)
    ELSE <<>>

\* ILI9488_SetAddressWindow(x0, y0, x1, y1) under rotation `rot`.
ILI9488_SetAddressWindow(rot, x0, y0, x1, y1) ==
    IF IsPortrait(rot) THEN WindowBlocks(x0, x1, y0, y1)
    ELSE IF IsLandscape(rot) THEN WindowBlocks(y0, y1, x0, x1)
    ELSE <<>>

\* What an operation does: the arguments of its SetAddressWindow calls, in
\* order, and the blocks it executes.
Did(windows, blocks) == [windows |-> windows, blocks |-> blocks]
Nothing == Did(<<>>, <<>>)
\* A call of SetAddressWindow followed by `rest`; the uint16_t parameters
\* take their arguments modulo 2^16.
WithWindow(rot, x0, y0, x1, y1, rest) ==
    Did(<< <<x0 % U16, y0 % U16, x1 % U16, y1 % U16>> >>,
        ILI9488_SetAddressWindow(rot, x0 % U16, y0 % U16, x1 % U16, y1 % U16)
        \o rest)

\* -------------------------------------------------------------- operations
\* color & 0x3FFFF
Masked(color) == color % Mask18

\* DrawPixel that passes (x, y, x, y) in the landscape orientations too.
DrawPixelUnswapped(rot, x, y, color) ==
    IF IsPortrait(rot) \/ IsLandscape(rot)
    THEN WithWindow(rot, x, y, x, y, <<Data(Masked(color))>>)
    ELSE Nothing

\* ILI9488_DrawPixel(x, y, color)
ILI9488_DrawPixel(rot, x, y, color) ==
    IF IsPortrait(rot)
    THEN WithWindow(rot, x, y, x, y, <<Data(Masked(color))>>)
    ELSE IF IsLandscape(rot)
    THEN WithWindow(rot, y, x, y, x, <<Data(Masked(color))>>)
    ELSE Nothing

\* ILI9488_DrawLine(x0, y0, x1, y1, color)
ILI9488_DrawLine(rot, x0, y0, x1, y1, color) ==
    IF IsPortrait(rot)
    THEN WithWindow(rot, x0, y0, x1, y1,
             Loop(Mul32(ILI9488_PORTRAIT_WIDTH, ILI9488_PORTRAIT_HEIGHT),
                  Masked(color)))
    ELSE IF IsLandscape(rot)
    THEN WithWindow(rot, y0, x0, y1, x1,
             Loop(Mul32(ILI9488_LANDSCAPE_WIDTH, ILI9488_LANDSCAPE_HEIGHT),
                  Masked(color)))
    ELSE Nothing

\* DrawRect that writes the top edge only.
DrawRectTopEdge(rot, x, y, w, h, color) ==
    IF IsPortrait(rot)
    THEN WithWindow(rot, x, y, x + w - 1, y + h - 1,
             Loop(Mul32(w, 1), Masked(color)))
    ELSE IF IsLandscape(rot)
    THEN WithWindow(rot, y, x, y + h - 1, x + w - 1,
             Loop(Mul32(1, w), Masked(color)))
    ELSE Nothing

\* ILI9488_DrawRect(x, y, w, h, color)
ILI9488_DrawRect(rot, x, y, w, h, color) ==
    IF IsPortrait(rot)
    THEN WithWindow(rot, x, y, x + w - 1, y + h - 1,
             Loop(Mul32(w, h), Masked(color)))
    ELSE IF IsLandscape(rot)
    THEN WithWindow(rot, y, x, y + h - 1, x + w - 1,
             Loop(Mul32(h, w), Masked(color)))
    ELSE Nothing

\* FillRect whose window ends at (x + w, y + h): one past the rectangle.
FillRectOffByOne(rot, x, y, w, h, color) ==
    IF IsPortrait(rot)
    THEN WithWindow(rot, x, y, x + w, y + h,
             Loop(Mul32(w, h), Masked(color)))
    ELSE IF IsLandscape(rot)
    THEN WithWindow(rot, y, x, y + h, x + w,
             Loop(Mul32(h, w), Masked(color)))
    ELSE Nothing

\* FillRect that returns before the address window when the rectangle has
\* no pixel.
FillRectSkipsEmpty(rot, x, y, w, h, color) ==
    IF w = 0 \/ h = 0
    THEN Nothing
    ELSE IF IsPortrait(rot)
    THEN WithWindow(rot, x, y, x + w - 1, y + h - 1,
             Loop(Mul32(w, h), Masked(color)))
    ELSE IF IsLandscape(rot)
    THEN WithWindow(rot, y, x, y + h - 1, x + w - 1,
             Loop(Mul32(h, w), Masked(color)))
    ELSE Nothing

\* ILI9488_FillRect(x, y, w, h, color)
ILI9488_FillRect(rot, x, y, w, h, color) ==
    IF IsPortrait(rot)
    THEN WithWindow(rot, x, y, x + w - 1, y + h - 1,
             Loop(Mul32(w, h), Masked(color)))
    ELSE IF IsLandscape(rot)
    THEN WithWindow(rot, y, x, y + h - 1, x + w - 1,
             Loop(Mul32(h, w), Masked(color)))
    ELSE Nothing

\* DrawCircle that writes as many pixels as its window holds.
DrawCircleBoundingBox(rot, x0, y0, radius, color) ==
    IF IsPortrait(rot)
    THEN WithWindow(rot, x0, y0, x0 + radius, y0 + radius,
             Loop(Mul32((radius + 1) % U16, (radius + 1) % U16),
                  Masked(color)))
    ELSE IF IsLandscape(rot)
    THEN WithWindow(rot, y0, x0, y0 + radius, x0 + radius,
             Loop(Mul32((radius + 1) % U16, (radius + 1) % U16),
                  Masked(color)))
    ELSE Nothing

\* ILI9488_DrawCircle(x0, y0, radius, color)
ILI9488_DrawCircle(rot, x0, y0, radius, color) ==
    IF IsPortrait(rot)
    THEN WithWindow(rot, x0, y0, x0 + radius, y0 + radius,
             Loop(Mul32(ILI9488_PORTRAIT_WIDTH, ILI9488_PORTRAIT_HEIGHT),
                  Masked(color)))
    ELSE IF IsLandscape(rot)
    THEN WithWindow(rot, y0, x0, y0 + radius, x0 + radius,
             Loop(Mul32(ILI9488_LANDSCAPE_WIDTH, ILI9488_LANDSCAPE_HEIGHT),
                  Masked(color)))
    ELSE Nothing

\* ILI9488_FillCircle(x0, y0, radius, color)
ILI9488_FillCircle(rot, x0, y0, radius, color) ==
    IF IsPortrait(rot)
    THEN WithWindow(rot, x0, y0, x0 + radius, y0 + radius,
             Loop(Mul32(ILI9488_PORTRAIT_WIDTH, ILI9488_PORTRAIT_HEIGHT),
                  Masked(color)))
    ELSE IF IsLandscape(rot)
    THEN WithWindow(rot, y0, x0, y0 + radius, x0 + radius,
             Loop(Mul32(ILI9488_LANDSCAPE_WIDTH, ILI9488_LANDSCAPE_HEIGHT),
                  Masked(color)))
    ELSE Nothing

\* FillBackground that always uses the portrait extent.
FillBackgroundPortraitOnly(rot, color) ==
    IF IsPortrait(rot) \/ IsLandscape(rot)
    THEN WithWindow(rot, 0, 0, ILI9488_PORTRAIT_WIDTH - 1,
             ILI9488_PORTRAIT_HEIGHT - 1,
             Loop(Mul32(ILI9488_PORTRAIT_WIDTH, ILI9488_PORTRAIT_HEIGHT),
                  Masked(color)))
    ELSE Nothing

\* ILI9488_FillBackground(color)
ILI9488_FillBackground(rot, color) ==
    IF IsPortrait(rot)
    THEN WithWindow(rot, 0, 0, ILI9488_PORTRAIT_WIDTH - 1,
             ILI9488_PORTRAIT_HEIGHT - 1,
             Loop(Mul32(ILI9488_PORTRAIT_WIDTH, ILI9488_PORTRAIT_HEIGHT),
                  Masked(color)))
    ELSE IF IsLandscape(rot)
    THEN WithWindow(rot, 0, 0, ILI9488_LANDSCAPE_WIDTH - 1,
             ILI9488_LANDSCAPE_HEIGHT - 1,
             Loop(Mul32(ILI9488_LANDSCAPE_WIDTH, ILI9488_LANDSCAPE_HEIGHT),
                  Masked(color)))
    ELSE Nothing

\* SetRotation that reduces its argument modulo 4 instead of clamping it.
SetRotationWraps(rotation) ==
    << Cmd(CMD_MEMORY_ACCESS), Data(ili9488_rotations[(rotation % 4) + 1]) >>

\* ILI9488_SetRotation(uint8_t rotation): the local `rotation` is clamped,
\* the command and the table byte are sent; ili9488_rotation is not written.
ILI9488_SetRotation(rotation) ==
    LET r == IF (rotation % U8) > ILI9488_ROTATION_LANDSCAPE_INV
             THEN ILI9488_ROTATION_PORTRAIT
             ELSE rotation % U8
    IN << Cmd(CMD_MEMORY_ACCESS), Data(ili9488_rotations[r + 1]) >>

\* Init without the wait after sleep-out.
InitNoSleepOutDelay(rotation) ==
    << Once(<<BSRR_Reset("RESET", 0)>>), Once(<<HAL_Delay(20)>>),
       Once(<<BSRR_Set("RESET", 0)>>), Once(<<HAL_Delay(120)>>),
       Cmd(CMD_SLEEP_OUT),
       Cmd(CMD_PIXEL_FORMAT), Data(102) >>
    \o ILI9488_SetRotation(rotation)
    \o << Cmd(CMD_DISPLAY_ON), Once(<<HAL_Delay(20)>>) >>

\* The statements of ILI9488_Init(rotation) that drive the pins (the store
\* to ili9488_rotation is in the action Init_).
ILI9488_Init(rotation) ==
    << Once(<<BSRR_Reset("RESET", 0)>>), Once(<<HAL_Delay(20)>>),
       Once(<<BSRR_Set("RESET", 0)>>), Once(<<HAL_Delay(120)>>),
       Cmd(CMD_SLEEP_OUT), Once(<<HAL_Delay(120)>>),
       Cmd(CMD_PIXEL_FORMAT), Data(102) >>
    \o ILI9488_SetRotation(rotation)
    \o << Cmd(CMD_DISPLAY_ON), Once(<<HAL_Delay(20)>>) >>

\* ILI9488_DisplayOff / ILI9488_DisplayOn
ILI9488_DisplayOff == << Cmd(CMD_DISPLAY_OFF), Once(<<HAL_Delay(20)>>) >>
ILI9488_DisplayOn == << Cmd(CMD_DISPLAY_ON), Once(<<HAL_Delay(20)>>) >>
\* ILI9488_Sleep / ILI9488_WakeUp
\* Sleep that does not switch the display off first.
SleepWithoutDisplayOff == << Cmd(CMD_SLEEP_IN), Once(<<HAL_Delay(120)>>) >>
ILI9488_Sleep ==
    ILI9488_DisplayOff \o << Cmd(CMD_SLEEP_IN), Once(<<HAL_Delay(120)>>) >>
\* WakeUp that sends sleep-out before display-on.
WakeUpSleepOutFirst ==
    << Cmd(CMD_SLEEP_OUT), Once(<<HAL_Delay(20)>>) >> \o ILI9488_DisplayOn
ILI9488_WakeUp ==
    ILI9488_DisplayOn \o << Cmd(CMD_SLEEP_OUT), Once(<<HAL_Delay(20)>>) >>

\* ------------------------------------------------------ pins and the bus log
\* The element of a one-element set. The({F(x) : x \in {v}}) is F(v) with
\* v evaluated once.
The(S) == CHOOSE x \in S : TRUE

\* The level of a control pin after the events ev[j], j in C: the value of
\* the last write to it, else its level `init` before them.
Level(ev, C, init, pin) ==
    The({IF W = {} THEN init ELSE ev[CHOOSE j \in W : \A k \in W : k <= j].v :
           W \in {{j \in C : ev[j].p = pin}}})

\* The data pins that are high after the events ev[j], j in W (the writes to
\* data pins), from the word `init`: those set by a write that no later
\* write cleared, and those never written that were high.
HighPins(ev, W, init) ==
    The({{ev[j].i : j \in {k \in W \ W0 :
                             \A c \in W0 : c > k => ev[c].i # ev[k].i}}
         \cup {b \in 0..17 : Bit(init, b) = 1 /\ \A j \in W : ev[j].i # b} :
           W0 \in {{j \in W : ev[j].v = 0}}})

\* The word on DB0..DB17 with the pins H high.
Word(H) ==
    LET w(b) == IF b \in H THEN 2 ^ b ELSE 0
    IN w(0) + w(1) + w(2) + w(3) + w(4) + w(5) + w(6) + w(7) + w(8) + w(9)
       + w(10) + w(11) + w(12) + w(13) + w(14) + w(15) + w(16) + w(17)

\* The output pins after the events ev[from + 1 .. upto], from pins p; W are
\* the writes to data pins among them and C the others.
PinsOver(p, ev, W, C) ==
    [cs |-> Level(ev, C, p.cs, "CS"),
     dcx |-> Level(ev, C, p.dcx, "DCX"),
     wr |-> Level(ev, C, p.wr, "WR"),
     reset |-> Level(ev, C, p.reset, "RESET"),
     db |-> IF W = {} THEN p.db
            ELSE The({Word(H) : H \in {HighPins(ev, W, p.db)}})]
PinsAt(p, ev, from, upto) ==
    The({PinsOver(p, ev, W, ((from + 1)..upto) \ W) :
           W \in {{j \in (from + 1)..upto : ev[j].p = "DB"}}})

\* What the outside sees of event e, executed n times with the pins at p
\* before it: the controller latches DB0..DB17 on a rising edge of WR while
\* CS is low, as a command when DCX is low and as data when DCX is high; the
\* reset line and the delays are logged as they happen.
Observe(p, e, n) ==
    CASE e.p = "WR" ->
            IF e.v = 1 /\ p.wr = 0 /\ p.cs = 0
            THEN <<[k |-> IF p.dcx = 0 THEN "cmd" ELSE "data",
                    v |-> p.db, n |-> n]>>
            ELSE <<>>
      [] e.p = "RESET" -> <<[k |-> "reset", v |-> e.v, n |-> n]>>
      [] e.p = "DELAY" -> <<[k |-> "delay", v |-> e.v, n |-> n]>>
      [] OTHER -> <<>>

\* The elements of a set of numbers in increasing order.
Sorted(S) ==
    [k \in 1..Cardinality(S) |->
        CHOOSE j \in S : Cardinality({x \in S : x < j}) = k - 1]

\* One block from pins p: the pins after it and what the outside saw. The
\* pins are worked out before every event the outside can see (at[j] for such
\* an event j), and after the last event. A repeated block is a WriteData,
\* which rewrites every pin it reads, so its pins after n runs are its pins
\* after one.
RunBlockAt(p, ev, n, J, at) ==
    The({[pins |-> IF J = <<>> THEN PinsAt(p, ev, 0, Len(ev))
                   ELSE PinsAt(at[Len(J)], ev, J[Len(J)] - 1, Len(ev)),
          out |-> The({[i \in 1..Len(K) |-> seen[K[i]][1]] :
                         K \in {Sorted({k \in 1..Len(J) : seen[k] # <<>>})}})] :
           seen \in {[k \in 1..Len(J) |-> Observe(at[k], ev[J[k]], n)] \o <<>>}})
RunBlockOn(p, ev, n, J) ==
    The({RunBlockAt(p, ev, n, J, at) :
           at \in {[k \in 1..Len(J) |-> PinsAt(p, ev, 0, J[k] - 1)] \o <<>>}})
RunBlock(p, blk) ==
    The({RunBlockOn(p, ev, blk.n, J) :
           ev \in {blk.ev},
           J \in {Sorted({j \in 1..Len(blk.ev) :
                            \/ blk.ev[j].p \in {"RESET", "DELAY"}
                            \/ (blk.ev[j].p = "WR" /\ blk.ev[j].v = 1)})}})

\* The blocks b[i..] in order. (r is bound, not defined by LET, so that each
\* block is evaluated once.)
RECURSIVE RunBlocks(_, _, _, _)
RunBlocks(p, out, b, i) ==
    IF i > Len(b) THEN [pins |-> p, out |-> out]
    ELSE The({RunBlocks(r.pins, out \o r.out, b, i + 1) :
                r \in {RunBlock(p, b[i])}})

\* The controller's memory-access-control register: the data word that
\* follows the last 0x36 command of the log, else its old value.
RECURSIVE MadctlAfter(_, _, _)
MadctlAfter(old, log, i) ==
    IF i < 1 THEN old
    ELSE IF /\ log[i].k = "cmd" /\ log[i].v = CMD_MEMORY_ACCESS
            /\ i < Len(log) /\ log[i + 1].k = "data"
         THEN log[i + 1].v
         ELSE MadctlAfter(old, log, i - 1)

\* A flag of the controller that command `on` sets and command `off`
\* clears: what the last of the two in the log makes it, else its old value.
FlagAfter(old, log, on, off) ==
    The({IF W = {} THEN old
         ELSE log[CHOOSE j \in W : \A k \in W : k <= j].v = on :
           W \in {{j \in 1..Len(log) :
                     log[j].k = "cmd" /\ log[j].v \in {on, off}}}})
\* The controller's sleep and display flags after the log.
LcdAfter(old, log) ==
    [asleep |-> FlagAfter(old.asleep, log, CMD_SLEEP_IN, CMD_SLEEP_OUT),
     on |-> FlagAfter(old.on, log, CMD_DISPLAY_ON, CMD_DISPLAY_OFF)]

\* ------------------------------------------------------------------- state
VARIABLES
    ili9488_rotation,  \* the global of ili9488.c
    pins,              \* levels of CS, DCX, WR, RESET and the word on DB0..17
    call,              \* the operation that ran last, with its arguments
    windows,           \* the SetAddressWindow calls it made
    events,            \* the blocks of GPIO events it executed
    bus,               \* what the controller saw of it
    madctl,            \* the controller's memory-access-control register
    initArg,           \* the argument of the last ILI9488_Init, -1 if none
    prev,              \* the kind of the operation that returned before
    lcd,               \* the controller's flags: asleep, display on
    pending            \* the argument of an ILI9488_Init that was preempted
                       \* before its store to ili9488_rotation, -1 if none

vars ==
    <<ili9488_rotation, pins, call, windows, events, bus, madctl, initArg,
      prev, lcd, pending>>

\* --------------------------------------------------------------- the inputs
RotArgs == (0..MaxRotArg) \cup {U8 - 1}
\* Positions <<x, y>>: the origin, a point inside the panel in every
\* orientation, and the last column a uint16_t can name.
Points == {<<0, 0>>, <<10, 20>>, <<U16 - 1, 20>>}
\* Dimensions <<w, h>>: empty ones, one pixel, the panel's in both
\* orientations, a row and a column of the uint16_t maximum, and the largest
\* rectangle.
Dims ==
    {<<0, 0>>, <<0, ILI9488_PORTRAIT_HEIGHT>>, <<ILI9488_PORTRAIT_WIDTH, 0>>,
     <<1, 1>>, <<ILI9488_PORTRAIT_WIDTH, ILI9488_PORTRAIT_HEIGHT>>,
     <<ILI9488_LANDSCAPE_WIDTH, ILI9488_LANDSCAPE_HEIGHT>>,
     <<U16 - 1, 1>>, <<1, U16 - 1>>, <<U16 - 1, U16 - 1>>}
Radii == {0, 5, U16 - 1}
\* Colours: three of ili9488.h and the largest positive int.
Colors == {ILI9488_BLUE, ILI9488_RED, ILI9488_WHITE, 2147483647}
\* Colours of the shapes: one wider than 18 bits, one not.
ShapeColors == {ILI9488_BLUE, ILI9488_WHITE}

Called(op, args) == [op |-> op, args |-> args]

\* The drawing primitives of ili9488.h.
DrawOps ==
    {"DrawPixel", "DrawLine", "DrawRect", "FillRect", "DrawCircle",
     "FillCircle", "FillBackground"}
\* The kind of an operation: "Draw" for a drawing primitive, else its name.
Kind(op) == IF op \in DrawOps THEN "Draw" ELSE op

\* The pins are configured by MX_GPIO_Init, outside the driver: the control
\* lines may idle at either level. The controller's flags before its first
\* command are whatever its power-up left.
Init ==
    /\ ili9488_rotation = ILI9488_ROTATION_PORTRAIT
    /\ pins \in [cs : {0, 1}, dcx : {0, 1}, wr : {0, 1}, reset : {0}, db : {0}]
    /\ call = Called("none", <<>>)
    /\ windows = <<>>
    /\ events = <<>>
    /\ bus = <<>>
    /\ madctl = 0
    /\ initArg = -1
    /\ prev = "none"
    /\ lcd \in [asleep : BOOLEAN, on : BOOLEAN]
    /\ pending = -1

\* One operation runs to completion: its events are applied to the pins and
\* the controller's view is recorded.
Run(c, d) ==
    /\ call.op = "none"
    /\ \E did \in {d} : \E r \in {RunBlocks(pins, <<>>, did.blocks, 1)} :
       /\ call' = c
       /\ windows' = did.windows
       /\ events' = did.blocks
       /\ pins' = r.pins
       /\ bus' = r.out
       /\ madctl' = MadctlAfter(madctl, r.out, Len(r.out))
       /\ prev' = prev
       /\ lcd' = LcdAfter(lcd, r.out)

\* An operation that is not preempted.
Do(c, d) ==
    /\ Run(c, d)
    /\ pending' = pending

Init_ ==
    \E rotation \in RotArgs :
        /\ Do(Called("Init", <<rotation>>), Did(<<>>, ILI9488_Init(rotation)))
        /\ ili9488_rotation' = rotation
        /\ initArg' = rotation

DrawPixel ==
    \E pt \in Points, color \in Colors :
        /\ Do(Called("DrawPixel", <<pt[1], pt[2], color>>),
              ILI9488_DrawPixel(ili9488_rotation, pt[1], pt[2], color))
        /\ UNCHANGED <<ili9488_rotation, initArg>>

DrawLine ==
    \E a \in Points, b \in Points, color \in ShapeColors :
        /\ Do(Called("DrawLine", <<a[1], a[2], b[1], b[2], color>>),
              ILI9488_DrawLine(ili9488_rotation, a[1], a[2], b[1], b[2], color))
        /\ UNCHANGED <<ili9488_rotation, initArg>>

DrawRect ==
    \E pt \in Points, d \in Dims, color \in ShapeColors :
        /\ Do(Called("DrawRect", <<pt[1], pt[2], d[1], d[2], color>>),
              ILI9488_DrawRect(ili9488_rotation, pt[1], pt[2], d[1], d[2], color))
        /\ UNCHANGED <<ili9488_rotation, initArg>>

FillRect ==
    \E pt \in Points, d \in Dims, color \in ShapeColors :
        /\ Do(Called("FillRect", <<pt[1], pt[2], d[1], d[2], color>>),
              ILI9488_FillRect(ili9488_rotation, pt[1], pt[2], d[1], d[2], color))
        /\ UNCHANGED <<ili9488_rotation, initArg>>

DrawCircle ==
    \E pt \in Points, radius \in Radii, color \in ShapeColors :
        /\ Do(Called("DrawCircle", <<pt[1], pt[2], radius, color>>),
              ILI9488_DrawCircle(ili9488_rotation, pt[1], pt[2], radius, color))
        /\ UNCHANGED <<ili9488_rotation, initArg>>

FillCircle ==
    \E pt \in Points, radius \in Radii, color \in ShapeColors :
        /\ Do(Called("FillCircle", <<pt[1], pt[2], radius, color>>),
              ILI9488_FillCircle(ili9488_rotation, pt[1], pt[2], radius, color))
        /\ UNCHANGED <<ili9488_rotation, initArg>>

FillBackground ==
    \E color \in Colors :
        /\ Do(Called("FillBackground", <<color>>),
              ILI9488_FillBackground(ili9488_rotation, color))
        /\ UNCHANGED <<ili9488_rotation, initArg>>

\* Sleep that puts the orientation back to Portrait.
SleepResetsRotation ==
    /\ Do(Called("Sleep", <<>>), Did(<<>>, ILI9488_Sleep))
    /\ ili9488_rotation' = ILI9488_ROTATION_PORTRAIT
    /\ UNCHANGED initArg

Sleep ==
    /\ Do(Called("Sleep", <<>>), Did(<<>>, ILI9488_Sleep))
    /\ UNCHANGED <<ili9488_rotation, initArg>>

WakeUp ==
    /\ Do(Called("WakeUp", <<>>), Did(<<>>, ILI9488_WakeUp))
    /\ UNCHANGED <<ili9488_rotation, initArg>>

\* ILI9488_DisplayOff and ILI9488_DisplayOn are static too.
DisplayOff ==
    /\ Do(Called("DisplayOff", <<>>), Did(<<>>, ILI9488_DisplayOff))
    /\ UNCHANGED <<ili9488_rotation, initArg>>

DisplayOn ==
    /\ Do(Called("DisplayOn", <<>>), Did(<<>>, ILI9488_DisplayOn))
    /\ UNCHANGED <<ili9488_rotation, initArg>>

\* ILI9488_SetRotation called on its own (it is static: only code of
\* ili9488.c can do so). It leaves ili9488_rotation as it is.
SetRotation ==
    \E rotation \in RotArgs :
        /\ Do(Called("SetRotation", <<rotation>>),
              Did(<<>>, ILI9488_SetRotation(rotation)))
        /\ UNCHANGED <<ili9488_rotation, initArg>>

\* The operation has returned; the record of what it did is dropped before
\* the caller's next call. The driver's state and the pins stay.
Return ==
    /\ call.op # "none"
    /\ call' = Called("none", <<>>)
    /\ windows' = <<>>
    /\ events' = <<>>
    /\ bus' = <<>>
    /\ prev' = Kind(call.op)
    /\ UNCHANGED <<ili9488_rotation, pins, madctl, initArg, lcd, pending>>

\* The public operations of ili9488.h.
Next ==
    \/ Return
    \/ Init_
    \/ DrawPixel
    \/ DrawLine
    \/ DrawRect
    \/ FillRect
    \/ DrawCircle
    \/ FillCircle
    \/ FillBackground
    \/ Sleep
    \/ WakeUp

Spec == Init /\ [][Next]_vars

\* The file-local operations called on their own, between the public
\* operations that set the orientation, draw with it or switch the panel.
NextInternal ==
    \/ Return
    \/ Init_
    \/ SetRotation
    \/ DisplayOff
    \/ DisplayOn
    \/ DrawPixel
    \/ FillBackground
    \/ Sleep
    \/ WakeUp

SpecInternal == Init /\ [][NextInternal]_vars

\* ----------------------------------------------------------- preemption
\* The driver has no lock and masks no interrupt, so a handler that draws can
\* run between any two statements of ILI9488_Init. The statements of
\* ILI9488_Init up to and including the call of ILI9488_SetRotation:
InitUntilStore ==
    \E rotation \in RotArgs :
        /\ pending = -1
        /\ Run(Called("InitUntilStore", <<rotation>>),
               Did(<<>>, SubSeq(ILI9488_Init(rotation), 1,
                                Len(ILI9488_Init(rotation)) - 2)))
        /\ pending' = rotation
        /\ UNCHANGED <<ili9488_rotation, initArg>>

\* The rest of the preempted ILI9488_Init: the store to ili9488_rotation,
\* display on and the delay.
InitFromStore ==
    /\ pending # -1
    /\ Run(Called("InitFromStore", <<pending>>),
           Did(<<>>, SubSeq(ILI9488_Init(pending),
                            Len(ILI9488_Init(pending)) - 1,
                            Len(ILI9488_Init(pending)))))
    /\ ili9488_rotation' = pending
    /\ initArg' = pending
    /\ pending' = -1

\* ILI9488_Init in the main context, drawing calls in a handler that runs to
\* completion wherever it preempts.
NextPreempted ==
    \/ Return
    \/ InitUntilStore
    \/ InitFromStore
    \/ DrawPixel
    \/ FillBackground

SpecPreempted == Init /\ [][NextPreempted]_vars

\* ------------------------------------------------------------ the transport
\* Words handed to ILI9488_WriteData: every single bit a positive integer
\* has, nothing, all eighteen lines, alternating lines, and words with bits
\* above line 17.
Words ==
    {2 ^ i : i \in 0..30}
    \cup {0, Mask18 - 1, 87381, 174762, Mask18 + 5, 2147483647}
\* Opcodes handed to ILI9488_WriteCommand: those of the driver and the ends
\* of the uint8_t range.
Opcodes ==
    {0, CMD_SLEEP_IN, CMD_SLEEP_OUT, CMD_DISPLAY_OFF, CMD_DISPLAY_ON,
     CMD_COLUMN_ADDR, CMD_PAGE_ADDR, CMD_MEMORY_WRITE, CMD_MEMORY_ACCESS,
     CMD_PIXEL_FORMAT, U8 - 1}

\* ILI9488_WriteCommand called on its own.
WriteCommand ==
    \E cmd \in Opcodes :
        /\ Do(Called("WriteCommand", <<cmd>>), Did(<<>>, <<Cmd(cmd)>>))
        /\ UNCHANGED <<ili9488_rotation, initArg>>

\* ILI9488_WriteData called on its own.
WriteData ==
    \E data \in Words :
        /\ Do(Called("WriteData", <<data>>), Did(<<>>, <<Data(data)>>))
        /\ UNCHANGED <<ili9488_rotation, initArg>>

\* The two transactions of the driver, in any order, from any pins.
NextTransport ==
    \/ Return
    \/ WriteCommand
    \/ WriteData

SpecTransport == Init /\ [][NextTransport]_vars

\* =================================================================== claims
PublicOps == DrawOps \cup {"Init", "Sleep", "WakeUp"}

\* The indices of the writes to pin `pin` in the event list ev.
WritesTo(ev, pin) == {j \in 1..Len(ev) : ev[j].p = pin}

\* A block of events that is one scoped transaction: chip-select is written
\* twice, low by the first event and high by the last; WR is written twice
\* in between, low and then high.
ScopedTransaction(ev) ==
    /\ Len(ev) >= 4
    /\ WritesTo(ev, "CS") = {1, Len(ev)}
    /\ ev[1].v = 0
    /\ ev[Len(ev)].v = 1
    /\ \E lo \in 2..(Len(ev) - 2) : \E hi \in (lo + 1)..(Len(ev) - 1) :
          /\ WritesTo(ev, "WR") = {lo, hi}
          /\ ev[lo].v = 0
          /\ ev[hi].v = 1

\* C1: every block of events an operation executes that touches CS or WR is
\* one scoped transaction (CS low, exactly one WR low-then-high pulse, CS
\* high), so WR is never pulsed outside a CS-low span, and CS is high when
\* a public operation has returned.
C1_ChipSelectScoped ==
    /\ \A i \in 1..Len(events) :
          WritesTo(events[i].ev, "CS") \cup WritesTo(events[i].ev, "WR") # {}
              => ScopedTransaction(events[i].ev)
    /\ call.op \in PublicOps => pins.cs = 1

\* A fill has run from pins whose chip-select was low or high: twelve
\* transactions and more, and chip-select is high.
C1_Witness ==
    /\ call.op = "FillRect"
    /\ Len(events) >= 12
    /\ Len(bus) = Len(events)
    /\ pins.cs = 1

\* C2: the orientation the drawing operations read, ili9488_rotation, is one
\* of the four enumerated values in every reachable state.
C2_OrientationEnumerated ==
    ili9488_rotation \in
        {ILI9488_ROTATION_PORTRAIT, ILI9488_ROTATION_LANDSCAPE,
         ILI9488_ROTATION_PORTRAIT_INV, ILI9488_ROTATION_LANDSCAPE_INV}

\* What the drawing operation `op` with arguments a does under rotation rot.
Drawing(op, a, rot) ==
    CASE op = "DrawPixel" -> ILI9488_DrawPixel(rot, a[1], a[2], a[3])
      [] op = "DrawLine" -> ILI9488_DrawLine(rot, a[1], a[2], a[3], a[4], a[5])
      [] op = "DrawRect" -> ILI9488_DrawRect(rot, a[1], a[2], a[3], a[4], a[5])
      [] op = "FillRect" -> ILI9488_FillRect(rot, a[1], a[2], a[3], a[4], a[5])
      [] op = "DrawCircle" -> ILI9488_DrawCircle(rot, a[1], a[2], a[3], a[4])
      [] op = "FillCircle" -> ILI9488_FillCircle(rot, a[1], a[2], a[3], a[4])
      [] op = "FillBackground" -> ILI9488_FillBackground(rot, a[1])

\* The bus transactions of the blocks b. A transaction rewrites every pin
\* the controller reads, so they do not depend on the pins before.
BusOf(b) == RunBlocks(pins, <<>>, b, 1).out

\* C3: after an init whose rotation argument is outside 0..3, a drawing
\* primitive puts on the bus what it puts there in the Portrait orientation.
C3_OutOfRangeDrawsAsPortrait ==
    (initArg > ILI9488_ROTATION_LANDSCAPE_INV /\ call.op \in DrawOps)
        => bus = BusOf(Drawing(call.op, call.args,
                               ILI9488_ROTATION_PORTRAIT).blocks)

\* One transaction as the controller sees it.
Seen(kind, value) == [k |-> kind, v |-> value, n |-> One32]

\* The memory-access-control byte the claims give for a rotation argument.
ClaimedMadctl(v) ==
    CASE v = 0 -> 72  \* 0x48
      [] v = 1 -> 40  \* 0x28
      [] v = 2 -> 136 \* 0x88
      [] v = 3 -> 232 \* 0xE8
      [] OTHER -> 72

\* C4: ILI9488_SetRotation(v) puts on the bus exactly the command 0x36 and
\* one data word, the table byte of the clamped orientation.
C4_SetRotationSendsTableByte ==
    call.op = "SetRotation"
        => bus = <<Seen("cmd", 54), Seen("data", ClaimedMadctl(call.args[1]))>>

\* SetRotation(255) has run and sent the Portrait byte.
C4_Witness ==
    /\ call.op = "SetRotation"
    /\ call.args = <<U8 - 1>>
    /\ Len(bus) = 2
    /\ bus[2].v = 72

\* C5: when the last init was init(Portrait) and the controller has since
\* been sent the Landscape byte by SetRotation, drawPixel(10, 20, c) passes
\* the swapped window (20, 10, 20, 10) to SetAddressWindow.
C5_SetRotationChangesDrawing ==
    (/\ call.op = "DrawPixel"
     /\ call.args[1] = 10
     /\ call.args[2] = 20
     /\ initArg = ILI9488_ROTATION_PORTRAIT
     /\ madctl = 40)
        => windows = << <<20, 10, 20, 10>> >>

\* The orientations in which the drawing operations act.
ValidRotation == IsPortrait(ili9488_rotation) \/ IsLandscape(ili9488_rotation)

\* The kinds of the eleven transactions of an address window.
WindowKinds ==
    <<"cmd", "data", "data", "data", "data",
      "cmd", "data", "data", "data", "data", "cmd">>

\* The bus starts with the eleven transactions of one address window, each
\* sent once, the last being the memory-write command 0x2C; whatever
\* follows is data, and no other 0x2C command is sent.
WindowThenData ==
    /\ Len(bus) >= 11
    /\ \A i \in 1..11 : bus[i].k = WindowKinds[i] /\ bus[i].n = One32
    /\ bus[11].v = 44
    /\ \A i \in 12..Len(bus) : bus[i].k = "data"

\* Moduli that are pairwise coprime and whose product exceeds 2^32: two
\* numbers below 2^32 that agree modulo each of them are equal.
Moduli == {32767, 32768, 32769}

\* The count n, held as <<high, low>> 16-bit halves, is exactly w * h.
IsProduct(n, w, h) ==
    /\ n[1] \in 0..(U16 - 1)
    /\ n[2] \in 0..(U16 - 1)
    /\ \A m \in Moduli :
          (n[1] * (U16 % m) + n[2]) % m = ((w % m) * (h % m)) % m

\* C6: in a valid orientation fillRect(x, y, w, h, c) puts on the bus the
\* window transactions ending in the single 0x2C command and then exactly
\* w * h data words, each c & 0x3FFFF, and nothing else.
C6_FillRectDataCount ==
    (call.op = "FillRect" /\ ValidRotation)
        => /\ WindowThenData
           /\ IF call.args[3] = 0 \/ call.args[4] = 0
              THEN Len(bus) = 11
              ELSE /\ Len(bus) = 12
                   /\ bus[12].v = call.args[5] % 262144
                   /\ IsProduct(bus[12].n, call.args[3], call.args[4])

\* The 320 by 480 fill of 0x3FFFFF has run: 153600 = 2 * 65536 + 22528 data
\* words of 0x3FFFF.
C6_Witness ==
    /\ call.op = "FillRect"
    /\ ValidRotation
    /\ call.args[3] = 320
    /\ call.args[4] = 480
    /\ call.args[5] = 4194303
    /\ Len(bus) = 12
    /\ bus[12] = [k |-> "data", v |-> 262143, n |-> <<2, 22528>>]

\* C7: fillRect(x, y, w, h, c) calls SetAddressWindow once, before any pixel
\* data, with (x, y, x + w - 1, y + h - 1) in the portrait orientations and
\* (y, x, y + h - 1, x + w - 1) in the landscape ones, the uint16_t
\* parameters taking the sums modulo 2^16.
C7_FillRectWindow ==
    (call.op = "FillRect" /\ ValidRotation)
        => /\ WindowThenData
           /\ windows =
                << IF IsPortrait(ili9488_rotation)
                   THEN <<call.args[1], call.args[2],
                          (call.args[1] + call.args[3] - 1) % 65536,
                          (call.args[2] + call.args[4] - 1) % 65536>>
                   ELSE <<call.args[2], call.args[1],
                          (call.args[2] + call.args[4] - 1) % 65536,
                          (call.args[1] + call.args[3] - 1) % 65536>> >>

\* A landscape fill of the panel's 320 by 480 at (10, 20) has passed the
\* swapped window.
C7_Witness ==
    /\ call = Called("FillRect", <<10, 20, 320, 480, ILI9488_BLUE>>)
    /\ IsLandscape(ili9488_rotation)
    /\ windows = << <<20, 10, 499, 329>> >>
    /\ Len(bus) = 12

\* (x, y) lies on the panel in the active orientation.
InExtent(x, y) ==
    \/ IsPortrait(ili9488_rotation) /\ x < 320 /\ y < 480
    \/ IsLandscape(ili9488_rotation) /\ x < 480 /\ y < 320

\* C8: for (x, y) on the panel, drawPixel(x, y, c) calls SetAddressWindow
\* once, with (x, y, x, y) in the portrait orientations and (y, x, y, x) in
\* the landscape ones, and then sends one data word, c & 0x3FFFF.
C8_DrawPixelWindowAndData ==
    (call.op = "DrawPixel" /\ InExtent(call.args[1], call.args[2]))
        => /\ WindowThenData
           /\ windows =
                << IF IsPortrait(ili9488_rotation)
                   THEN <<call.args[1], call.args[2],
                          call.args[1], call.args[2]>>
                   ELSE <<call.args[2], call.args[1],
                          call.args[2], call.args[1]>> >>
           /\ Len(bus) = 12
           /\ bus[12] = Seen("data", call.args[3] % 262144)

\* A landscape drawPixel(10, 20, 0x3FFFFF) has run.
C8_Witness ==
    /\ call = Called("DrawPixel", <<10, 20, ILI9488_WHITE>>)
    /\ IsLandscape(ili9488_rotation)
    /\ windows = << <<20, 10, 20, 10>> >>
    /\ bus[12].v = 262143

\* C9: fillBackground(c) passes the window (0, 0, 319, 479) in the portrait
\* orientations and (0, 0, 479, 319) in the landscape ones, and then sends
\* exactly 153600 data words, each c & 0x3FFFF.
C9_FillBackgroundWholePanel ==
    (call.op = "FillBackground" /\ ValidRotation)
        => /\ WindowThenData
           /\ windows =
                << IF IsPortrait(ili9488_rotation)
                   THEN <<0, 0, 319, 479>> ELSE <<0, 0, 479, 319>> >>
           /\ Len(bus) = 12
           /\ bus[12] = [k |-> "data", v |-> call.args[1] % 262144,
                         n |-> <<2, 22528>>]

\* A landscape fillBackground has run.
C9_Witness ==
    /\ call.op = "FillBackground"
    /\ IsLandscape(ili9488_rotation)
    /\ windows = << <<0, 0, 479, 319>> >>
    /\ Len(bus) = 12

\* C10: init(r) for r in 0..3 shows the outside, in this order and nothing
\* else: reset low, a delay of at least 20 ms, reset high, a delay of at
\* least 120 ms, command 0x11, a delay of at least 120 ms, command 0x3A with
\* data 0x66, command 0x36 with the table byte of r, command 0x29, a delay
\* of at least 20 ms.
C10_InitSequence ==
    (call.op = "Init" /\ call.args[1] \in 0..3)
        => /\ Len(bus) = 12
           /\ [i \in 1..12 |-> bus[i].k] =
                <<"reset", "delay", "reset", "delay", "cmd", "delay",
                  "cmd", "data", "cmd", "data", "cmd", "delay">>
           /\ \A i \in 1..12 : bus[i].n = One32
           /\ bus[1].v = 0
           /\ bus[2].v >= 20
           /\ bus[3].v = 1
           /\ bus[4].v >= 120
           /\ bus[5].v = 17
           /\ bus[6].v >= 120
           /\ bus[7].v = 58
           /\ bus[8].v = 102
           /\ bus[9].v = 54
           /\ bus[10].v = ClaimedMadctl(call.args[1])
           /\ bus[11].v = 41
           /\ bus[12].v >= 20

\* init(LandscapeInverted) has run and sent 0xE8.
C10_Witness ==
    /\ call = Called("Init", <<ILI9488_ROTATION_LANDSCAPE_INV>>)
    /\ Len(bus) = 12
    /\ bus[10].v = 232
    /\ pins.reset = 1

\* The kinds and the values of a bus log.
KindsOf(log) == [i \in 1..Len(log) |-> log[i].k]
ValuesOf(log) == [i \in 1..Len(log) |-> log[i].v]

\* C11: sleep() shows the outside command 0x28, a delay of at least 20 ms,
\* command 0x10 and a delay of at least 120 ms; a wakeUp() that follows it
\* shows command 0x29, a delay, command 0x11 and a delay of at least 20 ms;
\* neither sends a data word.
C11_SleepThenWakeUp ==
    /\ call.op = "Sleep"
          => /\ KindsOf(bus) = <<"cmd", "delay", "cmd", "delay">>
             /\ bus[1].v = 40
             /\ bus[2].v >= 20
             /\ bus[3].v = 16
             /\ bus[4].v >= 120
    /\ (call.op = "WakeUp" /\ prev = "Sleep")
          => /\ KindsOf(bus) = <<"cmd", "delay", "cmd", "delay">>
             /\ bus[1].v = 41
             /\ bus[3].v = 17
             /\ bus[4].v >= 20

\* wakeUp() has run right after sleep().
C11_Witness ==
    /\ call.op = "WakeUp"
    /\ prev = "Sleep"
    /\ ValuesOf(bus) = <<41, 20, 17, 20>>
    /\ pins.db = 17

\* C12: ili9488_rotation is Portrait as long as init has not been called,
\* and no step other than an init changes it: the drawing primitives, sleep
\* and wakeUp leave it as it is.
C12_OnlyInitChangesRotation ==
    /\ [](initArg = -1 => ili9488_rotation = ILI9488_ROTATION_PORTRAIT)
    /\ [][call'.op # "Init" => ili9488_rotation' = ili9488_rotation]_vars

\* A drawing primitive has run after another one, both after
\* init(LandscapeInverted), and the orientation is still LandscapeInverted.
C12_Witness ==
    /\ call.op = "FillBackground"
    /\ prev = "Draw"
    /\ initArg = ILI9488_ROTATION_LANDSCAPE_INV
    /\ ili9488_rotation = ILI9488_ROTATION_LANDSCAPE_INV
    /\ Len(bus) = 12

\* C13: a colour in the documented range 0x000000..0x3FFFFF that drawPixel
\* is given in a valid orientation reaches the controller as a pixel data
\* word equal to it.
C13_InRangeColorSentWhole ==
    (/\ call.op = "DrawPixel"
     /\ ValidRotation
     /\ call.args[3] \in 0..4194303)
        => /\ Len(bus) = 12
           /\ bus[12].k = "data"
           /\ bus[12].v = call.args[3]

\* C14: the word on DB0..DB17 when a transaction is latched is the value
\* handed over modulo 2^18, line i carrying bit i, whatever the lines
\* carried before; for a command it is the opcode, lines 8..17 being low.
C14_Low18BitsOnDataLines ==
    /\ call.op = "WriteData"
          => /\ KindsOf(bus) = <<"data">>
             /\ bus[1].v = call.args[1] % 262144
             /\ \A i \in 0..17 :
                   (bus[1].v \div (2 ^ i)) % 2 = (call.args[1] \div (2 ^ i)) % 2
    /\ call.op = "WriteCommand"
          => /\ KindsOf(bus) = <<"cmd">>
             /\ bus[1].v = call.args[1]
             /\ bus[1].v < 256

\* A word with bits above line 17 has been written after all eighteen lines
\* were high: only its low bits 0 and 2 are on the lines.
C14_Witness ==
    /\ call = Called("WriteData", <<262149>>)
    /\ prev = "WriteData"
    /\ bus[1].v = 5
    /\ pins.db = 5
    /\ \E j \in 1..Len(events[1].ev) :
          events[1].ev[j] = BSRR_Set("DB", 2)

\* The bus entries i and i + 1 are the high and the low byte of c.
BytesOf(i, c) ==
    /\ bus[i].v \in 0..255
    /\ bus[i + 1].v \in 0..255
    /\ bus[i].v * 256 + bus[i + 1].v = c
    /\ bus[i].v = c \div 256

\* The bus starts with command 0x2A and the ranges (c0, c1), command 0x2B
\* and the range (p0, p1), and command 0x2C.
WindowOnBus(c0, c1, p0, p1) ==
    /\ WindowThenData
    /\ bus[1].v = 42
    /\ BytesOf(2, c0)
    /\ BytesOf(4, c1)
    /\ bus[6].v = 43
    /\ BytesOf(7, p0)
    /\ BytesOf(9, p1)
    /\ bus[11].v = 44

\* C15: the SetAddressWindow(x0, y0, x1, y1) call of a drawing primitive
\* puts eleven transactions on the bus: 0x2A with the bytes of (x0, x1) and
\* 0x2B with those of (y0, y1) in the portrait orientations, 0x2A with
\* (y0, y1) and 0x2B with (x0, x1) in the landscape ones, then 0x2C; each
\* coordinate is sent as its high byte and its low byte.
C15_AddressWindowBytes ==
    (call.op \in DrawOps /\ ValidRotation)
        => /\ Len(windows) = 1
           /\ IF IsPortrait(ili9488_rotation)
              THEN WindowOnBus(windows[1][1], windows[1][3],
                               windows[1][2], windows[1][4])
              ELSE WindowOnBus(windows[1][2], windows[1][4],
                               windows[1][1], windows[1][3])

\* A landscape fill has called SetAddressWindow(20, 10, 499, 329): the
\* column bytes are those of (10, 329), the page bytes those of (20, 499).
C15_Witness ==
    /\ call.op = "FillRect"
    /\ IsLandscape(ili9488_rotation)
    /\ windows = << <<20, 10, 499, 329>> >>
    /\ ValuesOf(SubSeq(bus, 1, 11)) = <<42, 0, 10, 1, 73, 43, 0, 20, 1, 243, 44>>

\* The positions in ev of the events e.
At(ev, e) == {j \in 1..Len(ev) : ev[j] = e}

\* One transport write inside the events ev: every data line is driven low,
\* all of that before any line is driven high, all of that before WR is
\* driven low, which happens once; then come two NOPs at least and WR is
\* driven high; no data line is written from WR low on.
StrobedAfterData(ev) ==
    \E lo \in At(ev, BSRR_Reset("WR", 0)) : \E hi \in At(ev, BSRR_Set("WR", 0)) :
        /\ WritesTo(ev, "WR") = {lo, hi}
        /\ lo < hi
        /\ \A b \in 0..17 : At(ev, BSRR_Reset("DB", b)) # {}
        /\ \A d \in WritesTo(ev, "DB") :
              /\ d < lo
              /\ ev[d].i \in 0..17
              /\ ev[d].v = 1
                    => \A c \in WritesTo(ev, "DB") : ev[c].v = 0 => c < d
        /\ Cardinality({j \in (lo + 1)..(hi - 1) : ev[j] = NOP}) >= 2

\* C16: every transaction drives all eighteen data lines low, then the
\* lines of the 1 bits high, then WR low once, waits two NOPs and drives WR
\* high; no data line changes while WR is low; WR is high when the
\* operation has returned.
C16_StrobeAfterDataSettled ==
    /\ \A i \in 1..Len(events) :
          WritesTo(events[i].ev, "WR") \cup WritesTo(events[i].ev, "DB") # {}
              => StrobedAfterData(events[i].ev)
    /\ call.op # "none" => pins.wr = 1

\* drawPixel has sent 0x3FFFF: eighteen lines driven low, eighteen driven
\* high, then the strobe, inside the chip-select writes.
C16_Witness ==
    /\ call.op = "DrawPixel"
    /\ Len(events) = 12
    /\ Len(events[12].ev) = 43
    /\ events[12].ev[39] = BSRR_Reset("WR", 0)
    /\ events[12].ev[42] = BSRR_Set("WR", 0)
    /\ bus[12].v = 262143
    /\ pins.wr = 1

\* In the events ev of one transaction DCX is written once, to level v,
\* after chip-select is driven low and before WR is driven low.
SelectedBeforeStrobe(ev, v) ==
    \E cs \in At(ev, BSRR_Reset("CS", 0)) : \E d \in WritesTo(ev, "DCX") :
        /\ WritesTo(ev, "DCX") = {d}
        /\ ev[d].v = v
        /\ cs < d
        /\ \A w \in WritesTo(ev, "WR") : d < w

\* C17: a WriteCommand is latched with DCX low and a WriteData with DCX
\* high, whatever DCX was before; DCX is written once per transaction,
\* after chip-select goes low and before the strobe.
C17_SelectLineMatchesKind ==
    /\ call.op = "WriteCommand"
          => /\ KindsOf(bus) = <<"cmd">>
             /\ pins.dcx = 0
             /\ SelectedBeforeStrobe(events[1].ev, 0)
    /\ call.op = "WriteData"
          => /\ KindsOf(bus) = <<"data">>
             /\ pins.dcx = 1
             /\ SelectedBeforeStrobe(events[1].ev, 1)

\* A command has been sent right after a data word, which left DCX high.
C17_Witness ==
    /\ call = Called("WriteCommand", <<CMD_MEMORY_WRITE>>)
    /\ prev = "WriteData"
    /\ bus = <<Seen("cmd", 44)>>
    /\ pins.dcx = 0

\* The operations that write a whole screen of one colour.
ScreenWriters == {"DrawLine", "DrawCircle", "FillCircle"}
\* The colour argument of the drawing call in `call`.
ColorArg == call.args[Len(call.args)]

\* C18: in a valid orientation drawLine, drawCircle and fillCircle send,
\* after the window transactions ending in the one 0x2C command, exactly
\* 153600 data words of color & 0x3FFFF, whatever their coordinates and
\* radius.
C18_ScreenfulOfData ==
    (call.op \in ScreenWriters /\ ValidRotation)
        => /\ WindowThenData
           /\ Len(bus) = 12
           /\ bus[12] = [k |-> "data", v |-> ColorArg % 262144,
                         n |-> <<2, 22528>>]

\* drawCircle of radius 0 at the origin has sent 153600 data words.
C18_Witness ==
    /\ call.op = "DrawCircle"
    /\ call.args[1] = 0
    /\ call.args[2] = 0
    /\ call.args[3] = 0
    /\ ValidRotation
    /\ Len(bus) = 12
    /\ bus[12].n = <<2, 22528>>

\* C19: in a valid orientation drawLine, drawCircle and fillCircle pass the
\* whole panel to SetAddressWindow: (0, 0, 319, 479) in the portrait
\* orientations, (0, 0, 479, 319) in the landscape ones.
C19_WindowIsWholePanel ==
    (call.op \in ScreenWriters /\ ValidRotation)
        => windows =
             << IF IsPortrait(ili9488_rotation)
                THEN <<0, 0, 319, 479>> ELSE <<0, 0, 479, 319>> >>

\* C20: drawRect passes the window and puts on the bus the transactions
\* that fillRect with the same arguments does in the same orientation.
C20_DrawRectIsFillRect ==
    call.op = "DrawRect"
        => /\ windows = Drawing("FillRect", call.args, ili9488_rotation).windows
           /\ bus = BusOf(Drawing("FillRect", call.args,
                                  ili9488_rotation).blocks)

\* A landscape drawRect of 320 by 480 has sent 153600 data words.
C20_Witness ==
    /\ call.op = "DrawRect"
    /\ IsLandscape(ili9488_rotation)
    /\ call.args[3] = 320
    /\ call.args[4] = 480
    /\ Len(bus) = 12
    /\ bus[12].n = <<2, 22528>>

\* The states of the controller the lifecycle names.
Active == [asleep |-> FALSE, on |-> TRUE]
Asleep == [asleep |-> TRUE, on |-> FALSE]

\* C21: with the controller's flags tracked from the commands it is sent,
\* the controller is Active (sleep-out, display on) after init, and once
\* init has been called it is Asleep (sleep-in, display off) after sleep()
\* and Active after wakeUp(), during the call's record and after it has
\* returned.
C21_ControllerFollowsLifecycle ==
    /\ (call.op = "Init" \/ (call.op = "none" /\ prev = "Init"))
          => lcd = Active
    /\ initArg # -1
          => /\ (call.op = "Sleep" \/ (call.op = "none" /\ prev = "Sleep"))
                   => lcd = Asleep
             /\ (call.op = "WakeUp" \/ (call.op = "none" /\ prev = "WakeUp"))
                   => lcd = Active

\* sleep() has run after a wakeUp(), after init: the controller is asleep
\* with its display off.
C21_Witness ==
    /\ call.op = "Sleep"
    /\ prev = "WakeUp"
    /\ initArg # -1
    /\ lcd = Asleep
    /\ ValuesOf(bus) = <<40, 20, 16, 120>>

\* C22: a drawing primitive never starts while the controller has been sent
\* the memory-access-control byte of a new rotation and ili9488_rotation
\* still holds the previous, different orientation. ILI9488_Init sends the
\* byte (line 367) before the store (line 368) with nothing to keep a
\* handler out in between.
C22_RotationUpdateAtomic ==
    (call.op \in DrawOps /\ pending # -1)
        => ~(/\ madctl = ClaimedMadctl(pending)
             /\ ili9488_rotation # pending
             /\ ClaimedMadctl(ili9488_rotation) # madctl)

\* The logical <<width, height>> of the panel in the orientation rot.
LogicalDims(rot) ==
    IF IsPortrait(rot)
        THEN <<ILI9488_PORTRAIT_WIDTH, ILI9488_PORTRAIT_HEIGHT>>
        ELSE <<ILI9488_LANDSCAPE_WIDTH, ILI9488_LANDSCAPE_HEIGHT>>

\* A fillRect from the origin over the logical width and height of the
\* current orientation.
FullScreenFillRect ==
    /\ call.op = "FillRect"
    /\ ValidRotation
    /\ call.args[1] = 0
    /\ call.args[2] = 0
    /\ <<call.args[3], call.args[4]>> = LogicalDims(ili9488_rotation)

\* C23: in every valid orientation a full-screen fillRect(0, 0, width,
\* height, c) puts on the bus the transactions of fillBackground(c): the
\* same column range, the same page range, the same 153600 data words.
C23_FullScreenFillRectIsFillBackground ==
    FullScreenFillRect
        => bus = BusOf(ILI9488_FillBackground(ili9488_rotation,
                                              call.args[5]).blocks)

\* C24: in a valid orientation fillRect and drawRect (x, y, w, h, c) send
\* 0x2A with x and (x + w - 1) mod 2^16, 0x2B with y and (y + h - 1) mod
\* 2^16, and 0x2C, whatever the panel's dimensions are; with w = 0 or h = 0
\* these eleven transactions are all they send, no pixel data following.
C24_DegenerateRectangles ==
    (call.op \in {"FillRect", "DrawRect"} /\ ValidRotation)
        => /\ WindowOnBus(call.args[1],
                          (call.args[1] + call.args[3] - 1) % U16,
                          call.args[2],
                          (call.args[2] + call.args[4] - 1) % U16)
           /\ (call.args[3] = 0 \/ call.args[4] = 0)
                 => /\ KindsOf(bus) = WindowKinds
                    /\ \A i \in 1..Len(events) : events[i].n = One32

\* An empty fillRect at the origin has sent the end coordinates 0xFFFF and
\* 0xFFFF, the memory-write command and nothing after it.
C24_Witness ==
    /\ call = Called("FillRect", <<0, 0, 0, 0, ILI9488_BLUE>>)
    /\ ValidRotation
    /\ ValuesOf(bus) = <<42, 0, 0, 255, 255, 43, 0, 0, 255, 255, 44>>

====
